---- MODULE Spec2Model ----
(***************************************************************************)
(* A model of lib/engine/HttpInvoker.go of opwire-testkit: the invocation  *)
(* entry point HttpInvoker.Do with its interceptor dispatch, and the       *)
(* expectation synthesis TestGenerator.generateExpectation.                *)
(*                                                                         *)
(* Texts (URLs, bodies) are sequences of tokens, so that joining, parsing  *)
(* and re-serialising are computed and not assumed.  A Go pointer field is *)
(* a sequence of length 0 (nil) or 1 (set).                                *)
(***************************************************************************)
EXTENDS Integers, Sequences, FiniteSets, TLC

VARIABLES
    pc,            \* position of the one invocation of Do / of the synthesis runs
    opts,          \* the *HttpInvokerOptions given to NewHttpInvoker (None before)
    cpdp,          \* HttpInvoker.pdp
    version,       \* TestGenerator.Version
    req,           \* the *HttpRequest given to Do (None: nil)
    interceptors,  \* the variadic interceptors of Do, in call order
    lowReq,        \* the *http.Request built by http.NewRequest (None before)
    lowRes,        \* the *http.Response of httpClient.Do (None before)
    i,             \* index of the dispatch loop that is running
    trace,         \* every sink write and every transport call, in time order
    res,           \* the *HttpResponse being populated (None before)
    ret,           \* what Do returned: None while running, else <<[res, err]>>
    genErrs,       \* errors returned by generateTestCase, in time order
    cap,           \* synthesis runs: the ResponseCapture under synthesis
    cap0,          \* synthesis runs: the capture as it was before the first run
    run1,          \* synthesis runs: result of the first run (None before)
    run2           \* synthesis runs: result of the second run (None before)

vars == <<pc, opts, cpdp, version, req, interceptors, lowReq, lowRes, i, trace, res,
          ret, genErrs, cap, cap0, run1, run2>>

doVars == <<opts, cpdp, version, req, interceptors, lowReq, lowRes, i, trace, res,
           ret, genErrs>>
genVars == <<cap, cap0, run1, run2>>

None == <<>>
Some(x) == <<x>>

\* ------------------------------------------------------------------ bounds

MaxNames == 2
MaxInterceptors == 2

\* ------------------------------------------------------- response captures

NamePool == <<"Content-Type", "Set-Cookie", "Vary", "X-Id">>
HeaderNames == {NamePool[n] : n \in 1..MaxNames}

\* The value lists one header name may carry (http.Header is map[string][]string;
\* a key with an empty list is a key of the map).
ValueLists == {<<>>, <<"v">>, <<"w">>, <<"v", "w">>, <<"w", "w">>}

HeaderMaps == UNION {[S -> ValueLists] : S \in SUBSET HeaderNames}

StatusCodes == {200, 404}

\* Body texts, as token sequences.  "\"a\"" is a quoted string, "a" a plain one.
Bodies ==
    { <<>>,
      <<"{", "}">>,
      <<"{", "\"a\"", ":", "1", "}">>,
      <<"{", "\"b\"", ":", "1", ",", "\"a\"", ":", "\"a\"", "}">>,
      <<"{", "\"a\"", ":", "1", ",", "\"a\"", ":", "null", "}">>,
      <<"null">>,
      <<"1">>,
      <<"\"a\"">>,
      <<"[", "1", "]">>,
      <<"{", "\"a\"", ":", "1">>,
      <<"a", ":", "1">>,
      <<"b", ":", "a", "\n", "a", ":", "1">>,
      <<"a">>,
      <<"-", "1">> }

\* ------------------------------------------------------------ encoding/json

JsonKeys == {"\"a\"", "\"b\""}
JsonScalars == {"1", "null", "\"a\"", "\"b\""}

\* a quoted string token and the string it denotes
Unquote(t) == IF t = "\"a\"" THEN "a" ELSE IF t = "\"b\"" THEN "b" ELSE t
Quote(k) == IF k = "a" THEN "\"a\"" ELSE IF k = "b" THEN "\"b\"" ELSE k

\* members of a JSON object: key : scalar (, key : scalar)*
RECURSIVE IsJsonMembers(_)
IsJsonMembers(s) ==
    /\ Len(s) >= 3
    /\ s[1] \in JsonKeys /\ s[2] = ":" /\ s[3] \in JsonScalars
    /\ \/ Len(s) = 3
       \/ Len(s) > 4 /\ s[4] = "," /\ IsJsonMembers(SubSeq(s, 5, Len(s)))

IsJsonObject(s) ==
    /\ Len(s) >= 2 /\ s[1] = "{" /\ s[Len(s)] = "}"
    /\ Len(s) = 2 \/ IsJsonMembers(SubSeq(s, 2, Len(s) - 1))

\* The map a list of entries (key, sep, value, sep, key, ...) decodes to, added
\* to m.  Keys are kept unquoted, string values quoted; a repeated key keeps
\* its last value.
RECURSIVE MembersToMap(_, _)
MembersToMap(s, m) ==
    IF Len(s) < 3 THEN m
    ELSE LET k == Unquote(s[1])
             v == IF s[3] \in {"a", "b"} THEN Quote(s[3]) ELSE s[3]
             m2 == [x \in DOMAIN m \cup {k} |-> IF x = k THEN v ELSE m[x]]
         IN  MembersToMap(SubSeq(s, 5, Len(s)), m2)

EmptyMap == [x \in {} |-> "null"]

\* json.Unmarshal(body, &obj) with obj a map[string]interface{}: the error and
\* the value obj holds afterwards (None: the nil map, after a JSON null).  A
\* text that is no JSON (SyntaxError) or is a JSON value other than an object
\* or null (UnmarshalTypeError) leaves obj as it was.
JsonUnmarshal(body, obj) ==
    IF IsJsonObject(body)
    THEN [err |-> FALSE,
          obj |-> Some(MembersToMap(SubSeq(body, 2, Len(body) - 1),
                                    IF obj = None THEN EmptyMap ELSE obj[1]))]
    ELSE IF body = <<"null">> THEN [err |-> FALSE, obj |-> None]
    ELSE [err |-> TRUE, obj |-> obj]

\* the keys of a map in the sorted order both encoders write them in
RECURSIVE SortedKeys(_)
SortedKeys(S) ==
    IF S = {} THEN <<>>
    ELSE LET k == IF "a" \in S THEN "a" ELSE CHOOSE x \in S : TRUE
         IN  <<k>> \o SortedKeys(S \ {k})

RECURSIVE JsonMembersText(_, _)
JsonMembersText(m, ks) ==
    IF ks = <<>> THEN <<>>
    ELSE <<"\n", "  ", Quote(ks[1]), ": ", m[ks[1]]>>
         \o (IF Len(ks) > 1 THEN <<",">> ELSE <<>>)
         \o JsonMembersText(m, Tail(ks))

\* json.MarshalIndent(obj, "", "  ")
JsonMarshalIndent(obj) ==
    IF obj = None THEN <<"null">>
    ELSE IF DOMAIN obj[1] = {} THEN <<"{", "}">>
    ELSE <<"{">> \o JsonMembersText(obj[1], SortedKeys(DOMAIN obj[1])) \o <<"\n", "}">>

\* ------------------------------------------------------- gopkg.in/yaml.v2

YamlKeys == {"a", "b"} \cup JsonKeys
YamlScalars == {"1", "null", "a", "b"} \cup JsonKeys

\* entries of a block mapping: key : scalar (newline key : scalar)*
RECURSIVE IsYamlEntries(_)
IsYamlEntries(s) ==
    /\ Len(s) >= 3
    /\ s[1] \in YamlKeys /\ s[2] = ":" /\ s[3] \in YamlScalars
    /\ \/ Len(s) = 3
       \/ Len(s) > 4 /\ s[4] = "\n" /\ IsYamlEntries(SubSeq(s, 5, Len(s)))

\* a document whose root node is a mapping: a flow mapping (the syntax of a
\* JSON object) or a block mapping
IsYamlMapping(s) == IsJsonObject(s) \/ IsYamlEntries(s)

\* yaml.Unmarshal(body, &obj) with obj a map[string]interface{}.  A text with
\* no document (the empty text) has no node to decode: no error, obj as it
\* was.  A null root resets obj.  A scalar or sequence root is a TypeError,
\* anything else a syntax error.
YamlUnmarshal(body, obj) ==
    IF body = <<>> THEN [err |-> FALSE, obj |-> obj]
    ELSE IF IsYamlMapping(body)
    THEN [err |-> FALSE,
          obj |-> Some(MembersToMap(IF IsJsonObject(body)
                                    THEN SubSeq(body, 2, Len(body) - 1)
                                    ELSE body,
                                    IF obj = None THEN EmptyMap ELSE obj[1]))]
    ELSE IF body = <<"null">> THEN [err |-> FALSE, obj |-> None]
    ELSE [err |-> TRUE, obj |-> obj]

RECURSIVE YamlEntriesText(_, _)
YamlEntriesText(m, ks) ==
    IF ks = <<>> THEN <<>>
    ELSE <<ks[1], ": ", Unquote(m[ks[1]]), "\n">> \o YamlEntriesText(m, Tail(ks))

\* yaml.Marshal(obj)
YamlMarshal(obj) ==
    IF obj = None \/ DOMAIN obj[1] = {} THEN <<"{", "}", "\n">>
    ELSE YamlEntriesText(obj[1], SortedKeys(DOMAIN obj[1]))

\* ------------------------------------------------- generateExpectation

\* The orders a `for key, vals := range res.Header` may visit the keys in: Go
\* leaves the iteration order of a map unspecified, and it differs from one
\* loop to the next.
KeyOrders(header) ==
    {o \in [1..Cardinality(DOMAIN header) -> DOMAIN header] :
        \A k \in DOMAIN header : \E n \in DOMAIN o : o[n] = k}

\* faulty variant: itemizes every name that carries a value, with its first
RECURSIVE HeaderItemsAnyValue(_, _)
HeaderItemsAnyValue(header, order) ==
    IF order = <<>> THEN <<>>
    ELSE LET key == Head(order)
             vals == header[key]
         IN  (IF Len(vals) >= 1
              THEN <<[Name |-> key, IsEqualTo |-> vals[1]]>>
              ELSE <<>>)
             \o HeaderItemsAnyValue(header, Tail(order))

\* the loop of lines 240-250 over the keys still to visit
RECURSIVE HeaderItems(_, _)
HeaderItems(header, order) ==
    IF order = <<>> THEN <<>>
    ELSE LET key == Head(order)
             vals == header[key]
         IN  (IF Len(vals) = 1
              THEN <<[Name |-> key, IsEqualTo |-> vals[1]]>>
              ELSE <<>>)
             \o HeaderItems(header, Tail(order))

\* e.Headers after the header block
MeasureHeaders(header, order) ==
    LET total == Cardinality(DOMAIN header)
    IN  IF total > 0
        THEN Some([HasTotal |-> total, Items |-> HeaderItems(header, order)])
        ELSE None

NewMeasureBody == [HasFormat |-> None, Includes |-> None,
                   IsEqualTo |-> None, MatchWith |-> None]

\* the JSON attempt, lines 257-268: the state <<e.Body, obj>> after it
SniffJson(body, st) ==
    IF st[1].HasFormat = None
    THEN LET r == JsonUnmarshal(body, st[2])
         IN  IF ~r.err
             THEN <<[st[1] EXCEPT !.HasFormat = Some("json"),
                                  !.Includes = Some(JsonMarshalIndent(r.obj))],
                    r.obj>>
             ELSE <<st[1], r.obj>>
    ELSE st

\* faulty variant: the YAML attempt without the guard on HasFormat
SniffYamlUnguarded(body, st) ==
    LET r == YamlUnmarshal(body, st[2])
    IN  IF ~r.err
        THEN <<[st[1] EXCEPT !.HasFormat = Some("yaml"),
                             !.Includes = Some(YamlMarshal(r.obj))],
               r.obj>>
        ELSE <<st[1], r.obj>>

\* the YAML attempt: lines 270-281
SniffYaml(body, st) ==
    IF st[1].HasFormat = None
    THEN LET r == YamlUnmarshal(body, st[2])
         IN  IF ~r.err
             THEN <<[st[1] EXCEPT !.HasFormat = Some("yaml"),
                                  !.Includes = Some(YamlMarshal(r.obj))],
                    r.obj>>
             ELSE <<st[1], r.obj>>
    ELSE st

\* the fallback: lines 283-287
SniffFlat(body, st) ==
    IF st[1].HasFormat = None
    THEN <<[st[1] EXCEPT !.HasFormat = Some("flat"),
                         !.IsEqualTo = Some(body),
                         !.MatchWith = Some(".*")],
           st[2]>>
    ELSE st

\* e.Body after the body block
MeasureBody(body) ==
    SniffFlat(body, SniffYaml(body, SniffJson(body, <<NewMeasureBody, Some(EmptyMap)>>)))[1]

\* generateExpectation(res) for a non-nil res, the header map visited in `order`
GenerateExpectation(r, order) ==
    [StatusCode |-> Some([IsEqualTo |-> r.StatusCode]),
     Headers |-> MeasureHeaders(r.Header, order),
     Body |-> Some(MeasureBody(r.Body))]

\* ------------------------------------------------------- synthesis runs

Captures == [StatusCode : StatusCodes, Header : HeaderMaps, Body : Bodies]

DoIdle ==
    /\ opts = None /\ cpdp = None /\ version = "" /\ req = None /\ interceptors = <<>>
    /\ lowReq = None /\ lowRes = None /\ i = 0 /\ trace = <<>> /\ res = None /\ ret = None
    /\ genErrs = <<>>

InitGen ==
    /\ pc = "gen0"
    /\ cap \in Captures
    /\ cap0 = cap
    /\ run1 = None /\ run2 = None
    /\ DoIdle

\* g.generateExpectation(res): the first of two calls on the same capture
FirstRun ==
    /\ pc = "gen0"
    /\ \E order \in KeyOrders(cap.Header) :
          run1' = Some(GenerateExpectation(cap, order))
    /\ pc' = "gen1"
    /\ UNCHANGED <<cap, cap0, run2>>
    /\ UNCHANGED doVars

\* the second call
SecondRun ==
    /\ pc = "gen1"
    /\ \E order \in KeyOrders(cap.Header) :
          run2' = Some(GenerateExpectation(cap, order))
    /\ pc' = "gen2"
    /\ UNCHANGED <<cap, cap0, run1>>
    /\ UNCHANGED doVars

NextGen == FirstRun \/ SecondRun

SpecGen == InitGen /\ [][NextGen]_vars

\* ---------------------------------------------------------- HttpInvoker

DEFAULT_PDP == <<"http://localhost:17779">>
DEFAULT_PATH == <<"/", "$">>

\* "%zz" is an invalid escape: a text holding it is no URL (url.Parse fails)
UrlParses(u) == \A n \in DOMAIN u : u[n] # "%zz"

\* whether a parsed URL names a scheme the client can send to
HasScheme(u) == Len(u) > 0 /\ u[1] \in {"http://localhost:17779", "http://pdp",
                                        "http://h", "http://u"}

StripTrailingSlash(u) ==
    IF Len(u) > 0 /\ u[Len(u)] = "/" THEN SubSeq(u, 1, Len(u) - 1) ELSE u
StripLeadingSlash(p) ==
    IF Len(p) > 0 /\ p[1] = "/" THEN Tail(p) ELSE p

\* utils.UrlJoin(pdp, path): the strings it may return.  A root that parses
\* is joined with the path by exactly one slash.  For a root that does not
\* parse it returns an error, which line 54 drops, and a string that is
\* either empty or not a URL.
UrlJoin(pdp, path) ==
    IF UrlParses(pdp)
    THEN {StripTrailingSlash(pdp) \o <<"/">> \o StripLeadingSlash(path)}
    ELSE {<<>>, pdp}

\* a method made of token characters only
ValidMethod(m) == m \in {"GET", "POST"}

\* http.NewRequest(method, url, body): the request, or None with an error
NewRequest(method, url) ==
    IF ValidMethod(method) /\ UrlParses(url)
    THEN Some([Method |-> method, URL |-> url, Header |-> <<>>])
    ELSE None

Options == [PDP : {<<>>, <<"http://pdp">>}, Version : {"1.0"}]

Requests == [Method : {"", "POST", "BAD METHOD"},
             Url : {<<>>, <<"http://u", "/", "x">>},
             PDP : {<<>>, <<"http://h", "/">>, <<"%zz">>},
             Path : {<<>>, <<"/", "orders">>},
             Headers : {<<>>,
                        <<[Name |-> "Accept", Value |-> "application/json"],
                          [Name |-> "", Value |-> "x"],
                          [Name |-> "X-Empty", Value |-> ""]>>}]

\* An interceptor: whether it is an ExplanationWriter and GetConsoleOut() is
\* not nil, whether it is a SnapshotGenerator and GetTargetWriter() is not nil.
InterceptorKinds ==
    { [expl |-> FALSE, out |-> FALSE, snap |-> FALSE, target |-> FALSE],
      [expl |-> TRUE,  out |-> TRUE,  snap |-> FALSE, target |-> FALSE],
      [expl |-> TRUE,  out |-> FALSE, snap |-> FALSE, target |-> FALSE],
      [expl |-> FALSE, out |-> FALSE, snap |-> TRUE,  target |-> TRUE],
      [expl |-> FALSE, out |-> FALSE, snap |-> TRUE,  target |-> FALSE],
      [expl |-> TRUE,  out |-> TRUE,  snap |-> TRUE,  target |-> TRUE] }

InterceptorLists == UNION {[1..n -> InterceptorKinds] : n \in 0..MaxInterceptors}

\* what the server may answer
TransportResponses ==
    { [Version |-> "HTTP/1.1", Status |-> "200 OK", StatusCode |-> 200,
       Header |-> (NamePool[1] :> <<"v">>),
       Body |-> <<"{", "\"a\"", ":", "1", "}">>],
      [Version |-> "HTTP/1.1", Status |-> "404 Not Found", StatusCode |-> 404,
       Header |-> [x \in {} |-> <<>>],
       Body |-> <<>>],
      [Version |-> "HTTP/1.1", Status |-> "200 OK", StatusCode |-> 200,
       Header |-> (NamePool[1] :> <<"v">> @@ NamePool[2] :> <<"v", "w">>),
       Body |-> <<"a">>] }

Init ==
    /\ pc = "new"
    /\ DoIdle
    /\ cap = None /\ cap0 = None /\ run1 = None /\ run2 = None

\* NewHttpInvoker(opts), opts not nil
NewHttpInvoker ==
    /\ pc = "new"
    /\ \E o \in Options :
          /\ opts' = Some(o)
          /\ cpdp' = IF Len(o.PDP) = 0 THEN DEFAULT_PDP ELSE o.PDP
          /\ version' = o.Version
    /\ pc' = "ready"
    /\ UNCHANGED <<req, interceptors, lowReq, lowRes, i, trace, res, ret, genErrs>>
    /\ UNCHANGED genVars

\* faulty variant: the invoker's root before the descriptor's
ResolvePdpSwapped(c, r) == IF Len(c) > 0 THEN c ELSE r.PDP

\* lines 46-49: the endpoint root of a descriptor with no Url
ResolvePdp(c, r) == IF Len(r.PDP) > 0 THEN r.PDP ELSE c

\* lines 50-53
ResolvePath(r) == IF Len(r.Path) > 0 THEN r.Path ELSE DEFAULT_PATH

\* lines 44-55: the strings url may hold at line 57
ResolveUrl(c, r) ==
    IF Len(r.Url) = 0 THEN UrlJoin(ResolvePdp(c, r), ResolvePath(r)) ELSE {r.Url}

\* lines 62-65
ResolveMethod(r) == IF Len(r.Method) > 0 THEN r.Method ELSE "GET"

\* lines 78-82: the headers added to lowReq
HasNameAndValue(h) == Len(h.Name) > 0 /\ Len(h.Value) > 0
AddHeaders(built, r) ==
    Some([built[1] EXCEPT !.Header = SelectSeq(r.Headers, HasNameAndValue)])

Result(r, e) == Some([res |-> r, err |-> e])

\* Do(nil, interceptors...): lines 40-42
DoNil ==
    /\ pc = "ready"
    /\ \E ics \in InterceptorLists : interceptors' = ics
    /\ ret' = Result(None, "Request must not be nil")
    /\ pc' = "done"
    /\ UNCHANGED <<opts, cpdp, version, req, lowReq, lowRes, i, trace, res, genErrs>>
    /\ UNCHANGED genVars

\* Do(req, interceptors...) up to the pre-processing loop: lines 44-82 (the
\* body of the request, lines 67-71, is not part of the state)
DoBuild ==
    /\ pc = "ready"
    /\ \E r \in Requests, ics \in InterceptorLists :
         \E url \in ResolveUrl(cpdp, r) :
            LET built == NewRequest(ResolveMethod(r), url)
            IN  /\ req' = Some(r)
                /\ interceptors' = ics
                /\ lowReq' = IF built = None THEN None ELSE AddHeaders(built, r)
                /\ IF built = None
                   THEN /\ ret' = Result(None, "NewRequest")
                        /\ pc' = "done"
                        /\ i' = i
                   ELSE /\ ret' = ret
                        /\ pc' = "pre"
                        /\ i' = 1
    /\ UNCHANGED <<opts, cpdp, version, lowRes, trace, res, genErrs>>
    /\ UNCHANGED genVars

Entry(kind, at, text) == [kind |-> kind, at |-> at, text |-> text]

\* renderRequest(w, lowReq): what it writes to w
RenderRequest(n, lr) == <<Entry("request", n, <<lr.Method, lr.URL, lr.Header>>)>>

\* one iteration of the pre-processing loop: lines 85-92
PreStep ==
    /\ pc = "pre"
    /\ i <= Len(interceptors)
    /\ trace' = trace \o (IF interceptors[i].expl /\ interceptors[i].out
                          THEN RenderRequest(i, lowReq[1])
                          ELSE <<>>)
    /\ i' = i + 1
    /\ UNCHANGED <<pc, opts, cpdp, version, req, interceptors, lowReq, lowRes, res, ret,
                   genErrs>>
    /\ UNCHANGED genVars

\* faulty variant: a failed call is made again
HttpClientDoRetry ==
    /\ pc = "pre"
    /\ i > Len(interceptors)
    /\ trace' = Append(trace, Entry("transport", 0, <<>>))
    /\ \E answer \in {None} \cup {Some(r) : r \in TransportResponses} :
          /\ answer # None => HasScheme(lowReq[1].URL)
          /\ lowRes' = answer
          /\ IF answer = None
             THEN /\ pc' = "pre"
                  /\ ret' = ret
             ELSE /\ pc' = "read"
                  /\ ret' = ret
    /\ UNCHANGED <<opts, cpdp, version, req, interceptors, lowReq, i, res, genErrs>>
    /\ UNCHANGED genVars

\* httpClient.Do(lowReq), once the pre-processing loop has ended: lines 95-101.
\* A request whose URL names no scheme fails in the client; any other either
\* fails (connection failure, timeout) or is answered.
HttpClientDo ==
    /\ pc = "pre"
    /\ i > Len(interceptors)
    /\ trace' = Append(trace, Entry("transport", 0, <<>>))
    /\ \E answer \in {None} \cup {Some(r) : r \in TransportResponses} :
          /\ answer # None => HasScheme(lowReq[1].URL)
          /\ lowRes' = answer
          /\ IF answer = None
             THEN /\ pc' = "done"
                  /\ ret' = Result(None, "transport")
             ELSE /\ pc' = "read"
                  /\ ret' = ret
    /\ UNCHANGED <<opts, cpdp, version, req, interceptors, lowReq, i, res, genErrs>>
    /\ UNCHANGED genVars

\* faulty variant: the half-populated response is returned with the error
ReadFailureKeepsRes(r) == Result(r, "read")

\* what Do returns when ioutil.ReadAll fails: line 112
ReadFailure(r) == Result(None, "read")

\* lines 103-113: res is populated and the body drained; a failing read
\* leaves in res.Body what was read before the failure
ReadAll ==
    /\ pc = "read"
    /\ \E ok \in BOOLEAN, part \in {<<>>, lowRes[1].Body} :
          /\ ok => part = lowRes[1].Body
          /\ res' = Some([lowRes[1] EXCEPT !.Body = part])
          /\ IF ok
             THEN /\ pc' = "post"
                  /\ i' = 1
                  /\ ret' = ret
             ELSE /\ pc' = "done"
                  /\ i' = i
                  /\ ret' = ReadFailure(res')
    /\ UNCHANGED <<opts, cpdp, version, req, interceptors, lowReq, lowRes, trace, genErrs>>
    /\ UNCHANGED genVars

\* renderResponse(w, res): what it writes to w
RenderResponse(n, r) ==
    <<Entry("response", n,
            <<r.Version, IF Len(r.Status) > 0 THEN r.Status ELSE "code", r.Body>>)>>

\* generateTestCase(w, req, res): what it writes to w and whether it returns
\* an error; `marshals` is whether yaml.Marshal(r) succeeds
GenerateTestCase(n, ver, rq, r, order, marshals) ==
    LET s == [Title |-> "<Generated testcase>", Version |-> ver, Request |-> rq,
              Expectation |-> GenerateExpectation(r, order)]
        snapshot == [TestCases |-> <<s>>]
    IN  IF marshals
        THEN [writes |-> <<Entry("snapshot", n, <<snapshot>>)>>, err |-> FALSE]
        ELSE [writes |-> <<Entry("diagnostic", n,
                                 <<"Cannot marshal generated testcase, error: %s">>)>>,
              err |-> TRUE]

\* faulty variant: the snapshot before the response rendering
PostWritesSnapshotFirst(n, ic, r, g) ==
    (IF ic.snap /\ ic.target THEN g.writes ELSE <<>>)
    \o (IF ic.expl /\ ic.out THEN RenderResponse(n, r) ELSE <<>>)

\* the body of the post-processing loop for interceptor n, lines 117-128: what
\* it writes
PostWrites(n, ic, r, g) ==
    (IF ic.expl /\ ic.out THEN RenderResponse(n, r) ELSE <<>>)
    \o (IF ic.snap /\ ic.target THEN g.writes ELSE <<>>)

\* one iteration of the post-processing loop: lines 116-129
PostStep ==
    /\ pc = "post"
    /\ i <= Len(interceptors)
    /\ \E order \in KeyOrders(res[1].Header), marshals \in BOOLEAN :
          LET ic == interceptors[i]
              g == GenerateTestCase(i, version, req[1], res[1], order, marshals)
          IN  /\ ~(ic.snap /\ ic.target) => marshals
              /\ trace' = trace \o PostWrites(i, ic, res[1], g)
              /\ genErrs' = IF ic.snap /\ ic.target /\ g.err
                            THEN Append(genErrs, i)
                            ELSE genErrs
    /\ i' = i + 1
    /\ UNCHANGED <<pc, opts, cpdp, version, req, interceptors, lowReq, lowRes, res, ret>>
    /\ UNCHANGED genVars

\* line 131
DoReturn ==
    /\ pc = "post"
    /\ i > Len(interceptors)
    /\ ret' = Result(res, "nil")
    /\ pc' = "done"
    /\ UNCHANGED <<opts, cpdp, version, req, interceptors, lowReq, lowRes, i, trace, res,
                   genErrs>>
    /\ UNCHANGED genVars

Next ==
    \/ NewHttpInvoker
    \/ DoNil
    \/ DoBuild
    \/ PreStep
    \/ HttpClientDo
    \/ ReadAll
    \/ PostStep
    \/ DoReturn

Spec == Init /\ [][Next]_vars

\* ------------------------------------------------------------- properties

\* the synthesis runs made so far
Runs == (IF run1 = None THEN {} ELSE {run1[1]}) \cup (IF run2 = None THEN {} ELSE {run2[1]})

SingleValued(header) == {k \in DOMAIN header : Len(header[k]) = 1}

HeadersAsClaimed(header, e) ==
    /\ (e.Headers # None) <=> (DOMAIN header # {})
    /\ e.Headers # None =>
          LET h == e.Headers[1]
          IN  /\ h.HasTotal = Cardinality(DOMAIN header)
              /\ \A k \in DOMAIN header :
                    (Len(header[k]) = 1) <=> (\E n \in DOMAIN h.Items : h.Items[n].Name = k)
              /\ \A n \in DOMAIN h.Items :
                    /\ h.Items[n].Name \in SingleValued(header)
                    /\ h.Items[n].IsEqualTo = header[h.Items[n].Name][1]
              /\ Len(h.Items) = Cardinality(SingleValued(header))

\* C1: the headers assertion exists iff the header map has a name; HasTotal is
\* the number of names, and the itemized list holds exactly the names carrying
\* one value, each once and with that value, so a name with two or more
\* values is counted and never itemized.
C1_HeadersAssertion == \A e \in Runs : HeadersAsClaimed(cap.Header, e)

C1_Witness ==
    /\ run1 # None
    /\ \E k \in DOMAIN cap.Header : Len(cap.Header[k]) = 2
    /\ \E k \in DOMAIN cap.Header : Len(cap.Header[k]) = 1
    /\ run1[1].Headers[1].HasTotal = 2
    /\ Len(run1[1].Headers[1].Items) = 1

JsonParses(body) == ~JsonUnmarshal(body, Some(EmptyMap)).err
YamlParses(body) == ~YamlUnmarshal(body, Some(EmptyMap)).err

BodyAsClaimed(body, e) ==
    LET b == e.Body[1]
    IN  /\ b.HasFormat \in {Some("json"), Some("yaml"), Some("flat")}
        /\ (b.HasFormat = Some("json")) <=> JsonParses(body)
        /\ (b.HasFormat = Some("yaml")) <=> (~JsonParses(body) /\ YamlParses(body))
        /\ (b.HasFormat = Some("flat")) <=> (~JsonParses(body) /\ ~YamlParses(body))
        /\ b.HasFormat \in {Some("json"), Some("yaml")} =>
              b.Includes # None /\ b.IsEqualTo = None /\ b.MatchWith = None
        /\ b.HasFormat = Some("flat") =>
              b.Includes = None /\ b.IsEqualTo = Some(body) /\ b.MatchWith = Some(".*")

\* C2: the body gets one format tag by strict priority: json iff the JSON
\* parse succeeds, yaml iff it fails and the YAML parse succeeds, flat iff both
\* fail; json and yaml carry only an includes snippet, flat carries the raw
\* body as is-equal-to and ".*" as match-with.
C2_FormatPriority == \A e \in Runs : BodyAsClaimed(cap.Body, e)

C2_Witness ==
    /\ run1 # None
    /\ JsonParses(cap.Body) /\ YamlParses(cap.Body) /\ Len(cap.Body) > 2
    /\ run1[1].Body[1].HasFormat = Some("json")

\* C3: an empty body is classified flat, with an empty is-equal-to and ".*"
\* as match-with.
C3_EmptyBodyIsFlat ==
    \A e \in Runs :
        cap.Body = <<>> =>
            /\ e.Body[1].HasFormat = Some("flat")
            /\ e.Body[1].IsEqualTo = Some(<<>>)
            /\ e.Body[1].MatchWith = Some(".*")

\* C10: two runs of generateExpectation on the same capture give the same
\* Expectation, the order of the itemized headers included, and leave the
\* capture as it was.
C10_Deterministic ==
    run1 # None /\ run2 # None => run1 = run2 /\ cap = cap0

IsTransport(e) == e.kind = "transport"
TransportCalls == Len(SelectSeq(trace, IsTransport))

PostKinds == {"response", "snapshot", "diagnostic"}

\* whether the method and URL of descriptor r cannot be made a request
Malformed(r) ==
    \/ ~ValidMethod(IF Len(r.Method) > 0 THEN r.Method ELSE "GET")
    \/ Len(r.Url) > 0 /\ ~UrlParses(r.Url)
    \/ Len(r.Url) = 0 /\ ~UrlParses(IF Len(r.PDP) > 0 THEN r.PDP ELSE cpdp)

\* C4: for a descriptor whose method and URL cannot be made a valid request
\* (a root and path that cannot be joined included), the transport call is
\* never attempted and Do returns an error.
C4_MalformedRequestAborts ==
    req # None /\ Malformed(req[1]) =>
        /\ TransportCalls = 0
        /\ ret # None => ret[1].err # "nil" /\ ret[1].res = None

\* the request renderings the pre-processing loop writes for ics[n..]
RECURSIVE PreWrites(_, _, _)
PreWrites(ics, n, lr) ==
    IF n > Len(ics) THEN <<>>
    ELSE (IF ics[n].expl /\ ics[n].out
          THEN <<[kind |-> "request", at |-> n,
                  text |-> <<lr.Method, lr.URL, lr.Header>>]>>
          ELSE <<>>)
         \o PreWrites(ics, n + 1, lr)

IsRequestEntry(e) == e.kind = "request"

\* C5: when the transport call or the draining of the body fails, Do returns
\* an error and no response, nothing of the post-call dispatch is written, and
\* the request renderings of the pre-call dispatch stay as written.
C5_FailureSkipsPostCall ==
    ret # None /\ ret[1].err \in {"transport", "read"} =>
        /\ ret[1].res = None
        /\ \A n \in DOMAIN trace : trace[n].kind \notin PostKinds
        /\ SelectSeq(trace, IsRequestEntry) = PreWrites(interceptors, 1, lowReq[1])

C5_Witness ==
    /\ ret # None /\ ret[1].err = "read"
    /\ Len(SelectSeq(trace, IsRequestEntry)) = 2

\* C6: a serialization failure of generateTestCase surfaces as a non-nil
\* error of Do, besides the diagnostic line written to the sink.
C6_SerializationErrorSurfaces ==
    ret # None /\ genErrs # <<>> =>
        /\ ret[1].err # "nil"
        /\ \A n \in DOMAIN genErrs :
              \E m \in DOMAIN trace :
                  trace[m].kind = "diagnostic" /\ trace[m].at = genErrs[n]

\* C7: an invocation whose request was built makes exactly one transport
\* call, never a second one, and returns only after it.
C7_OneTransportCall ==
    /\ TransportCalls <= 1
    /\ pc \in {"read", "post"} => TransportCalls = 1
    /\ ret # None /\ lowReq # None => TransportCalls = 1

C7_Witness ==
    /\ ret # None /\ ret[1].err = "transport"
    /\ HasScheme(lowReq[1].URL)
    /\ TransportCalls = 1

\* C8: with an empty Url the target is the join of the descriptor's PDP if
\* non-empty, else the configured PDP, else http://localhost:17779, with the
\* descriptor's Path if non-empty, else /$; a non-empty Url is the target
\* verbatim.
C8_TargetResolution ==
    lowReq # None =>
        LET r == req[1]
            root == IF Len(r.PDP) > 0 THEN r.PDP
                    ELSE IF Len(opts[1].PDP) > 0 THEN opts[1].PDP
                    ELSE <<"http://localhost:17779">>
            path == IF Len(r.Path) > 0 THEN r.Path ELSE <<"/", "$">>
        IN  IF Len(r.Url) > 0
            THEN lowReq[1].URL = r.Url
            ELSE /\ lowReq[1].URL \in UrlJoin(root, path)
                 /\ UrlParses(root) =>
                       lowReq[1].URL = StripTrailingSlash(root) \o <<"/">>
                                       \o StripLeadingSlash(path)

C8_Witness ==
    /\ lowReq # None
    /\ req[1].Url = <<>> /\ req[1].PDP = <<"http://h", "/">>
    /\ req[1].Path = <<"/", "orders">>
    /\ opts[1].PDP = <<"http://pdp">>
    /\ lowReq[1].URL = <<"http://h", "/", "orders">>

\* C9: sink writes follow call order and list order: request renderings come
\* first, in list order, before the transport call; post-call writes come
\* after the body is captured, in list order, the response rendering of an
\* interceptor before its snapshot; every write is one its interceptor's
\* capabilities and sinks call for, and none is missing when Do returns.
C9_DispatchOrder ==
    /\ \A m, n \in DOMAIN trace :
          m < n =>
             /\ trace[n].kind = "request" =>
                   trace[m].kind = "request" /\ trace[m].at < trace[n].at
             /\ trace[m].kind \in PostKinds =>
                   /\ trace[n].kind \in PostKinds
                   /\ \/ trace[m].at < trace[n].at
                      \/ /\ trace[m].at = trace[n].at
                         /\ trace[m].kind = "response"
                         /\ trace[n].kind \in {"snapshot", "diagnostic"}
    /\ \A n \in DOMAIN trace :
          /\ trace[n].kind \in {"request", "response"} =>
                interceptors[trace[n].at].expl /\ interceptors[trace[n].at].out
          /\ trace[n].kind \in {"snapshot", "diagnostic"} =>
                interceptors[trace[n].at].snap /\ interceptors[trace[n].at].target
          /\ trace[n].kind \in PostKinds =>
                /\ pc \in {"post", "done"}
                /\ res # None /\ res[1].Body = lowRes[1].Body
    /\ \A n \in DOMAIN genErrs :
          interceptors[genErrs[n]].snap /\ interceptors[genErrs[n]].target
    /\ ret # None /\ ret[1].err = "nil" =>
          \A k \in DOMAIN interceptors :
              /\ (interceptors[k].expl /\ interceptors[k].out) <=>
                    (\E n \in DOMAIN trace : trace[n].kind = "request" /\ trace[n].at = k)
              /\ (interceptors[k].expl /\ interceptors[k].out) <=>
                    (\E n \in DOMAIN trace : trace[n].kind = "response" /\ trace[n].at = k)
              /\ (interceptors[k].snap /\ interceptors[k].target) <=>
                    (\E n \in DOMAIN trace :
                        trace[n].kind \in {"snapshot", "diagnostic"} /\ trace[n].at = k)

C9_Witness ==
    /\ ret # None /\ ret[1].err = "nil"
    /\ Len(interceptors) = 2
    /\ interceptors[1].expl /\ interceptors[1].out
    /\ interceptors[1].snap /\ interceptors[1].target
    /\ ~interceptors[2].expl /\ ~interceptors[2].snap
    /\ Len(trace) = 4
    /\ trace[3].kind = "response" /\ trace[4].kind = "snapshot"

====
